---- MODULE Spec2Model ----
(***************************************************************************)
(* Feed synchronisation engine of RSS-Flow.                                *)
(*                                                                         *)
(*   services/rssParser.ts   fetchFeed, withTimeout, STRATEGIES            *)
(*   hooks/useFeeds          pMap, cleanupOldArticles, handleRefreshAll    *)
(*   App.tsx                 subscribe, delete and flag handlers           *)
(*                                                                         *)
(* JavaScript runs every task and its microtasks to completion, so one     *)
(* action is one task: the event that wakes a promise together with the    *)
(* continuations of the awaits that promise resolves.  React state lives   *)
(* in `feeds` and `refreshing`; a handler reads them through the closure   *)
(* of the render that created it (`view`).                                 *)
(***************************************************************************)
EXTENDS Integers, Sequences, FiniteSets, TLC

VARIABLES
    \* ---- one fetchFeed call (services/rssParser.ts) ----
    fpc,        \* position of fetchFeed: "idle", "await", "resolved", "rejected"
    signal,     \* the AbortSignal argument: "none", "live", "aborted"
    att,        \* per strategy: the strategy's promise and its withTimeout race
    errors,     \* fetchFeed's local errors[]
    fresult,    \* what fetchFeed's promise settled with
    started,    \* history: the strategies started, in order
    abortMark,  \* history: Len(started) when the signal fired during the call, else -1
    \* ---- the feed state owner (hooks/useFeeds) and its callers (App.tsx) ----
    phase,      \* "loading" until the load effect has run, then "ready"
    feeds,      \* useState<Feed[]>: the collection
    refreshing, \* useState(false): the in-flight flag
    view,       \* the feeds and refreshing the handlers of the last render closed over
    stale,      \* number of state updates React has not rendered yet
    passes,     \* the calls of handleRefreshAll that got past the guard
    sub,        \* handleAddFeedSubmit between its fetchFeed call and its setFeeds
    bulk,       \* onBatchAdd and handleImportOPML between their filter and their setFeeds
    userOps,    \* history: number of user actions so far
    dirty,      \* setFeeds or setCategories was called since the last render
    \* ---- persistence (hooks/useFeeds save effect, services/db.ts) ----
    saveTimeoutRef, \* the pending timer saveTimeoutRef.current names: <<>> or <<feeds>>
    strayTimers,    \* pending save timers that saveTimeoutRef no longer names
    disk,           \* the store: savedData.feeds under DATA_STORAGE_KEY
    writes,         \* the saveData calls that have not settled, in call order
    saveResult,     \* history: the last settled saveData call, its fault and outcome
    \* ---- settings and the auto refresh effect (hooks/useFeeds) ----
    refreshInterval, \* settings.refreshInterval, in minutes; 0 = manual
    intervalTimers,  \* the armed setInterval timers: [id, minutes]
    intervalId,      \* `intervalId` of the effect's last run; 0 = undefined
    settingOps,      \* the number of settings updates so far
    lifecycle,       \* "active", "paused" (in the background) or "unmounted"
    downloadImages,  \* settings.downloadImages: cache images for offline use
    opsAllowed       \* the number of user actions the run is followed for

fetchVars == <<fpc, signal, att, errors, fresult, started, abortMark>>

feedVars == <<phase, feeds, refreshing, view, stale, passes, sub, bulk,
              userOps, dirty>>

timerVars == <<saveTimeoutRef, strayTimers>>

storeVars == <<disk, writes, saveResult>>

envVars == <<refreshInterval, intervalTimers, intervalId, settingOps,
            lifecycle, downloadImages, opsAllowed>>

vars == <<fpc, signal, att, errors, fresult, started, abortMark,
          phase, feeds, refreshing, view, stale, passes, sub, bulk,
          userOps, dirty, saveTimeoutRef, strayTimers, disk, writes,
          saveResult, refreshInterval, intervalTimers, intervalId, settingOps,
          lifecycle, downloadImages, opsAllowed>>

----------------------------------------------------------------------------
(* services/rssParser.ts: STRATEGIES and withTimeout                       *)

StrategyNames == <<"Native/Direct", "RSS2JSON Service", "AllOrigins", "CorsProxy">>

NumStrategies == Len(StrategyNames)

Strategies == 1..NumStrategies

TimeoutMs == 10000

CancelMsg == "Request cancelled"

\* `Timeout after ${timeoutMs}ms`
TimeoutMsg == "Timeout after " \o ToString(TimeoutMs) \o "ms"

\* parseWithFallback: throw new Error('Invalid RSS/Atom structure: ...')
UnrecognizedMsg == "Invalid RSS/Atom structure: No channel/feed found"

\* The messages a strategy's own promise can reject with.
FailReasons == {"HTTP 500", UnrecognizedMsg}

\* RSS2JSON Service maps the service's JSON itself; the other three hand the
\* body to parseWithFallback.
Parses(k) == k \in {1, 3, 4}

FailReasonsOf(k) ==
    IF Parses(k) THEN FailReasons ELSE FailReasons \ {UnrecognizedMsg}

\* Native/Direct calls CapacitorHttp.get without the signal; the other three
\* hand the signal to fetch().
UsesSignal(k) == k \in {2, 3, 4}

NoAttempt == [inner |-> "none", timer |-> "none", listener |-> FALSE,
              outer |-> "none", reason |-> ""]

\* withTimeout(strategy.execute(url, signal), 10000, signal): the request is in
\* flight, the timer is armed, onAbort listens when a signal was given.
WithTimeoutM(sig) ==
    [inner |-> "inflight", timer |-> "armed", listener |-> FALSE,
     outer |-> "pending", reason |-> ""]

WithTimeout(sig) ==
    [inner |-> "inflight", timer |-> "armed", listener |-> (sig # "none"),
     outer |-> "pending", reason |-> ""]

\* resolve / reject of the promise withTimeout returns: a settled promise
\* ignores every later resolve or reject.
SettleM(a, how, why) == [a EXCEPT !.outer = how, !.reason = why]

Settle(a, how, why) ==
    IF a.outer = "pending" THEN [a EXCEPT !.outer = how, !.reason = why] ELSE a

\* promise.then(value => ...)
OnValue(a) ==
    Settle([a EXCEPT !.inner = "ok", !.listener = FALSE,
                     !.timer = IF @ = "armed" THEN "cleared" ELSE @],
           "ok", "")

\* promise.catch(error => ...)
OnError(a, why) ==
    Settle([a EXCEPT !.inner = "fail", !.listener = FALSE,
                     !.timer = IF @ = "armed" THEN "cleared" ELSE @],
           "fail", why)

\* the setTimeout callback: neither the listener nor the request is touched
OnTimer(a) == Settle([a EXCEPT !.timer = "fired"], "timeout", TimeoutMsg)

\* onAbort
OnAbort(a) ==
    Settle([a EXCEPT !.timer = IF @ = "armed" THEN "cleared" ELSE @],
           "cancelled", CancelMsg)

----------------------------------------------------------------------------
(* services/rssParser.ts: fetchFeed                                        *)

NoResult == [kind |-> "none", from |-> 0, details |-> <<>>]

\* catch (e): if (e.message === 'Request cancelled') throw e
IsCancellationM(why) == why \in {CancelMsg, TimeoutMsg}

IsCancellation(why) == why = CancelMsg

\* the for loop's step to the next strategy
NextStrategyM(k) == IF k = 1 THEN 3 ELSE k + 1

NextStrategy(k) == k + 1

\* errors.push(`${strategy.name} failed: ${e.message}`)
PushErrorM(errs, k, why) ==
    IF k = 2 THEN errs ELSE Append(errs, StrategyNames[k] \o " failed: " \o why)

PushError(errs, k, why) == Append(errs, StrategyNames[k] \o " failed: " \o why)

\* The loop from the top of iteration k, up to the await (or the throw that
\* ends the function), as one record of fetchFeed's state.
LoopTop(s, k, sig) ==
    IF k > NumStrategies
    THEN [s EXCEPT !.fpc = "rejected",
                   !.fresult = [kind |-> "aggregate", from |-> 0,
                                details |-> s.errors]]
    ELSE IF sig = "aborted"
    THEN [s EXCEPT !.fpc = "rejected",
                   !.fresult = [kind |-> "cancelled", from |-> 0,
                                details |-> <<>>]]
    ELSE [s EXCEPT !.fpc = "await",
                   !.att[k] = WithTimeout(sig),
                   !.started = Append(@, k)]

\* The continuation of `await withTimeout(...)` for strategy k once the
\* promise has settled: return feed, rethrow, or record and go on.
AfterAwaitM(s, k, sig) ==
    LET a == s.att[k] IN
    IF a.outer = "ok"
    THEN [s EXCEPT !.fpc = "resolved",
                   !.fresult = [kind |-> "feed", from |-> k, details |-> <<>>]]
    ELSE IF IsCancellation(a.reason)
    THEN [s EXCEPT !.fpc = "rejected",
                   !.fresult = [kind |-> "cancelled", from |-> 0,
                                details |-> <<>>]]
    ELSE IF a.reason = UnrecognizedMsg
    THEN [s EXCEPT !.fpc = "rejected",
                   !.errors = PushError(@, k, a.reason),
                   !.fresult = [kind |-> "aggregate", from |-> 0,
                                details |-> PushError(s.errors, k, a.reason)]]
    ELSE LoopTop([s EXCEPT !.errors = PushError(@, k, a.reason)],
                 NextStrategy(k), sig)

AfterAwait(s, k, sig) ==
    LET a == s.att[k] IN
    IF a.outer = "ok"
    THEN [s EXCEPT !.fpc = "resolved",
                   !.fresult = [kind |-> "feed", from |-> k, details |-> <<>>]]
    ELSE IF IsCancellation(a.reason)
    THEN [s EXCEPT !.fpc = "rejected",
                   !.fresult = [kind |-> "cancelled", from |-> 0,
                                details |-> <<>>]]
    ELSE LoopTop([s EXCEPT !.errors = PushError(@, k, a.reason)],
                 NextStrategy(k), sig)

FetchState == [fpc |-> fpc, att |-> att, errors |-> errors,
               fresult |-> fresult, started |-> started]

SetFetchState(s) ==
    /\ fpc' = s.fpc
    /\ att' = s.att
    /\ errors' = s.errors
    /\ fresult' = s.fresult
    /\ started' = s.started

\* The strategy whose await fetchFeed is suspended in (0 when none).
Current == IF fpc = "await" THEN started[Len(started)] ELSE 0

\* An event of attempt k changed att[k] to a: when it settled the promise
\* fetchFeed awaits, fetchFeed's continuation runs in the same task.
Wake(k, a) ==
    LET s == [FetchState EXCEPT !.att[k] = a] IN
    IF k = Current /\ att[k].outer = "pending" /\ a.outer # "pending"
    THEN SetFetchState(AfterAwait(s, k, signal))
    ELSE SetFetchState(s)

\* fetchFeed(url, log, signal) is called: the code up to the first await.
FetchCall ==
    /\ fpc = "idle"
    /\ \E sig \in {"none", "live", "aborted"} :
        /\ signal' = sig
        /\ abortMark' = IF sig = "aborted" THEN 0 ELSE -1
        /\ SetFetchState(LoopTop(FetchState, 1, sig))
    /\ UNCHANGED <<feedVars, timerVars, storeVars, envVars>>

\* the strategy's promise fulfils with a feed
StrategyResolves(k) ==
    /\ att[k].inner = "inflight"
    /\ Wake(k, OnValue(att[k]))
    /\ UNCHANGED <<signal, abortMark>>
    /\ UNCHANGED <<feedVars, timerVars, storeVars, envVars>>

\* the strategy's promise rejects (HTTP status, parse error, network error)
StrategyRejects(k) ==
    /\ att[k].inner = "inflight"
    /\ \E why \in FailReasonsOf(k) : Wake(k, OnError(att[k], why))
    /\ UNCHANGED <<signal, abortMark>>
    /\ UNCHANGED <<feedVars, timerVars, storeVars, envVars>>

\* 10 s passed since withTimeout armed the timer
TimerFires(k) ==
    /\ att[k].timer = "armed"
    /\ Wake(k, OnTimer(att[k]))
    /\ UNCHANGED <<signal, abortMark>>
    /\ UNCHANGED <<feedVars, timerVars, storeVars, envVars>>

\* controller.abort(): fetch() requests given the signal are aborted, every
\* onAbort still registered runs; the awaiting fetchFeed then continues.
Abort ==
    /\ signal = "live"
    /\ signal' = "aborted"
    /\ abortMark' = IF fpc = "await" THEN Len(started) ELSE abortMark
    /\ LET hit == [k \in Strategies |->
                     LET a == IF att[k].listener THEN OnAbort(att[k]) ELSE att[k]
                     IN IF att[k].inner = "inflight" /\ UsesSignal(k)
                        THEN [OnError(a, "AbortError") EXCEPT !.inner = "aborted"]
                        ELSE a]
           s == [FetchState EXCEPT !.att = hit]
       IN IF fpc = "await" /\ hit[Current].outer # "pending"
          THEN SetFetchState(AfterAwait(s, Current, "aborted"))
          ELSE SetFetchState(s)
    /\ UNCHANGED <<feedVars, timerVars, storeVars, envVars>>

FetchNext ==
    \/ FetchCall
    \/ \E k \in Strategies : StrategyResolves(k)
    \/ \E k \in Strategies : StrategyRejects(k)
    \/ \E k \in Strategies : TimerFires(k)
    \/ Abort

----------------------------------------------------------------------------
(* types.ts: FeedItem and Feed.  An absent or empty string is "".           *)
(* pubDate is new Date(item.pubDate).getTime() in days; InvalidDate is a   *)
(* pubDate that parses to NaN.                                             *)

InvalidDate == -1

RetentionDays == 30

\* Date.now() of the load-time sweep, in days
Today == 100

Item(g, l, d) ==
    [guid |-> g, link |-> l, id |-> "", feedUrl |-> "", pubDate |-> d,
     isFavorite |-> FALSE, isReadLater |-> FALSE, isRead |-> FALSE]

Feed(u, its) ==
    [url |-> u, items |-> its, lastUpdated |-> 0, isMuted |-> FALSE,
     categoryId |-> ""]

\* Date.now() read after a time stamp `since` was taken: a later instant.
\* Only whether a stamp changed is observed, so the reading is the next one.
DateNow(since) == since + 1

\* a || b on strings
OrElse(a, b) == IF a # "" THEN a ELSE b

\* f.url.startsWith('local://')
IsLocal(u) == u = "local://guide"

Range(s) == {s[i] : i \in DOMAIN s}

\* array.map(Op)
SeqMap(Op(_), s) == [i \in 1..Len(s) |-> Op(s[i])]

----------------------------------------------------------------------------
(* hooks/useFeeds: cleanupOldArticles                                      *)

\* the age filter's callback
KeepByAgeM(item) == TRUE

KeepByAgeGeM(item) ==
    \/ item.isFavorite \/ item.isReadLater
    \/ item.pubDate = InvalidDate
    \/ item.pubDate >= Today - RetentionDays

KeepByAge(item) ==
    \/ item.isFavorite \/ item.isReadLater
    \/ item.pubDate = InvalidDate
    \/ item.pubDate > Today - RetentionDays

\* the dedup loop over one feed's items, with its one `seen` set
RECURSIVE DedupLoop(_, _)
DedupLoop(its, seen) ==
    IF its = <<>> THEN <<>>
    ELSE LET item == Head(its)
             key == OrElse(item.id, OrElse(item.guid, item.link))
             linkKey == item.link
         IN IF key \notin seen /\ (linkKey = "" \/ linkKey \notin seen)
            THEN <<item>> \o DedupLoop(Tail(its),
                     seen \cup {key} \cup (IF linkKey # "" THEN {linkKey} ELSE {}))
            ELSE DedupLoop(Tail(its), seen)

SweepFeedM(feed) ==
    LET kept == DedupLoop(SelectSeq(feed.items, KeepByAge), {})
    IN [feed EXCEPT !.items = IF Len(kept) > 1 THEN Tail(kept) ELSE kept]

SweepFeed(feed) ==
    [feed EXCEPT !.items = DedupLoop(SelectSeq(feed.items, KeepByAge), {})]

cleanupOldArticles(fs) == SeqMap(SweepFeed, fs)

----------------------------------------------------------------------------
(* hooks/useFeeds: the merge of handleRefreshAll's mapper                  *)

\* the map after the filter: id, feedTitle and feedUrl are set
StampNew(feed, item) ==
    [item EXCEPT !.id = OrElse(item.guid, item.link), !.feedUrl = feed.url]

\* the filter callback: hasGuid and hasLink
IsNewItem(feed, i) ==
    LET existingGuids == {x.guid : x \in Range(feed.items)}
        existingLinks == {x.link : x \in Range(feed.items)}
        hasGuid == i.guid # "" /\ i.guid \in existingGuids
        hasLink == i.link # "" /\ i.link \in existingLinks
    IN ~hasGuid /\ ~hasLink

NewItems(feed, fetched) ==
    LET Test(i) == IsNewItem(feed, i)
        Stamp(i) == StampNew(feed, i)
    IN SeqMap(Stamp, SelectSeq(fetched, Test))

\* the mapper's return value after a successful fetchFeed
MergeFetchedM(feed, fetched, t) ==
    LET newItems == NewItems(feed, fetched) IN
    IF Len(newItems) > 0
    THEN [feed EXCEPT !.items = feed.items \o newItems, !.lastUpdated = t]
    ELSE feed

MergeFetchedBumpM(feed, fetched, t) ==
    LET newItems == NewItems(feed, fetched) IN
    [feed EXCEPT !.items = newItems \o feed.items, !.lastUpdated = t]

MergeFetched(feed, fetched, t) ==
    LET newItems == NewItems(feed, fetched) IN
    IF Len(newItems) > 0
    THEN [feed EXCEPT !.items = newItems \o feed.items, !.lastUpdated = t]
    ELSE feed

\* setFeeds(prevFeeds => { resultMap = new Map(results.map(f => [f.url, f]));
\*                         return prevFeeds.map(f => resultMap.get(f.url) || f) })
\* A Map built from entries keeps the last entry of a key.
ApplyResults(prev, results) ==
    LET Last(u) == CHOOSE i \in DOMAIN results :
                      /\ results[i].url = u
                      /\ \A j \in DOMAIN results : results[j].url = u => j <= i
        Pick(f) == IF \E i \in DOMAIN results : results[i].url = f.url
                   THEN results[Last(f.url)] ELSE f
    IN SeqMap(Pick, prev)


----------------------------------------------------------------------------
(* What the outside world can hand to the program                          *)

MaxRefreshes == 2

MaxUserOps == 1

MaxStale == 1

\* user actions in a run that deletes and subscribes during a refresh
MaxChurnOps == 2

Recent == Today - 1

Old == Today - RetentionDays - 1

\* entries a remote feed may serve
E0 == Item("", "", Recent)

E1 == Item("g1", "l1", Recent)

E3 == Item("g3", "l3", Recent)

E4 == Item("g4", "l1", Recent)

E5 == Item("g5", "", Recent)

\* items as an earlier run stored them
Stored(item) == [item EXCEPT !.id = OrElse(item.guid, item.link)]

\* data/onboardingFeed: ONBOARDING_FEED, with one of its items
GuideItem ==
    [Item("guide-1", "local://guide/1", Today) EXCEPT !.id = "guide-1"]

GuideFeed == Feed("local://guide", <<GuideItem>>)

\* the item lists fetchFeed may resolve with for a url
RemoteLists(u) ==
    IF u = "u1"
    THEN {<<E1>>, <<E1, E3, E4>>, <<E5>>, <<E3, E3>>}
    ELSE IF u = "u2" THEN {<<>>, <<E0>>}
    ELSE {<<>>}

FetchOutcomes(u) ==
    {[ok |-> FALSE, items |-> <<>>]}
    \cup {[ok |-> TRUE, items |-> l] : l \in RemoteLists(u)}

\* what the store may hold as savedData.feeds when the app starts
StoredChoices ==
    { <<>>,
      << Feed("u1", <<Stored(E1), Stored(Item("g2", "", Recent))>>),
         GuideFeed >>,
      << Feed("u1", <<Stored(E1), Stored(Item("g2", "", Old)), Stored(E1)>>),
         Feed("u2", <<>>) >> }

\* stored collections whose items were read or not in earlier runs: two
\* feeds, items without a link, and a link that two feeds share
FlagInputs ==
    { << Feed("u1", << [Stored(E1) EXCEPT !.isRead = r[1]],
                       [Stored(Item("g2", "", Recent)) EXCEPT !.isRead = r[2]],
                       [Stored(E5) EXCEPT !.isRead = r[3]] >>),
         Feed("u2", << [Stored(E4) EXCEPT !.isRead = r[4]] >>) >>
      : r \in [1..4 -> BOOLEAN] }

\* a stored collection with more remote feeds than the pool has workers
ManyFeeds ==
    { << Feed("u3", <<>>), Feed("u4", <<>>), Feed("u5", <<>>),
         Feed("u6", <<>>) >> }

\* items a stored feed may hold: a favourite, a favourite with another guid
\* and the same link, an expired item, an expired read-later item, an item
\* whose pubDate does not parse, a plain recent item, an item dated exactly
\* RetentionDays ago, and an item whose guid is the link of another (E1)
SweepItems ==
    { [Stored(E1) EXCEPT !.isFavorite = TRUE],
      [Stored(E4) EXCEPT !.isFavorite = TRUE],
      Stored(Item("g2", "", Old)),
      [Stored(Item("g7", "l7", Old)) EXCEPT !.isReadLater = TRUE],
      Stored(Item("g6", "l6", InvalidDate)),
      Stored(E3),
      Stored(Item("g8", "l8", Today - RetentionDays)),
      Stored(Item("l1", "l9", Recent)) }

MaxStoredItems == 3

\* stored collections of one feed with up to MaxStoredItems of these items
SweepInputs ==
    {<<>>} \cup
    { <<Feed("u1", its)>> :
        its \in UNION {[1..n -> SweepItems] : n \in 0..MaxStoredItems} }

Urls == {"u1", "u2", "local://guide"}

Categories == {"", "c1"}

----------------------------------------------------------------------------
(* hooks/useFeeds: load effect, render, handleRefreshAll, pMap             *)

PoolWidth == 3

PassIds == 1..MaxRefreshes

NoPass == [state |-> "idle", snap |-> <<>>, index |-> 0, out |-> <<>>,
           calls |-> <<>>, fetched |-> <<>>, res |-> <<>>, failedCount |-> 0,
           updatedCount |-> 0]

Min(a, b) == IF a < b THEN a ELSE b

\* demoFeed of init(): the guide with feedUrl set on its items
DemoFeed ==
    LET Own(i) == [i EXCEPT !.feedUrl = GuideFeed.url]
    IN [GuideFeed EXCEPT !.items = SeqMap(Own, @)]

\* The save effect of a render with feeds fs:
\*   window.clearTimeout(saveTimeoutRef.current);
\*   saveTimeoutRef.current = window.setTimeout(() => saveData(...), 1000)
SaveEffectM(fs) ==
    /\ saveTimeoutRef' = <<fs>>
    /\ strayTimers' = strayTimers \cup Range(saveTimeoutRef)

SaveEffect(fs) ==
    /\ saveTimeoutRef' = <<fs>>
    /\ UNCHANGED strayTimers

\* A state setter was called from a timer callback or a promise continuation:
\* React (createRoot) renders the update in a later task, and until then the
\* handlers of the last render stay in use.
\* `touched` says whether the setter was setFeeds or setCategories.
Deferred(touched) ==
    /\ stale < MaxStale
    /\ stale' = stale + 1
    /\ dirty' = (dirty \/ touched)
    /\ UNCHANGED view
    /\ UNCHANGED timerVars

\* A state setter was called from a click handler: React renders before the
\* event's task ends.
\* The render runs the save effect when feeds or categories changed.
Flushed(touched) ==
    /\ stale' = 0
    /\ dirty' = FALSE
    /\ view' = [feeds |-> feeds', refreshing |-> refreshing']
    /\ IF dirty \/ touched THEN SaveEffect(feeds') ELSE UNCHANGED timerVars

\* an entry of `writes`: a saveData call and what it was given
Write(kind, fs) == [kind |-> kind, data |-> fs]

\* the load effect: init(), from loadData's answer on
Load ==
    /\ phase = "loading"
    /\ phase' = "ready"
    /\ IF Len(disk) > 0
       THEN LET cleanedFeeds == cleanupOldArticles(disk) IN
            /\ feeds' = cleanedFeeds
            /\ writes' = IF cleanedFeeds # disk
                         THEN Append(writes, Write("sweep", cleanedFeeds))
                         ELSE writes
       ELSE /\ \E hasSeenWelcome \in BOOLEAN :
                feeds' = IF hasSeenWelcome THEN <<>> ELSE <<DemoFeed>>
            /\ UNCHANGED writes
    /\ Deferred(TRUE)
    /\ UNCHANGED <<refreshing, passes, sub, bulk, userOps>>
    /\ UNCHANGED <<disk, saveResult>>
    /\ UNCHANGED <<fetchVars, envVars>>

\* the load effect when loadData rejects: the catch logs, setLoading(false)
LoadFails ==
    /\ phase = "loading"
    /\ phase' = "ready"
    /\ Deferred(FALSE)
    /\ UNCHANGED <<feeds, refreshing, passes, sub, bulk, userOps>>
    /\ UNCHANGED storeVars
    /\ UNCHANGED <<fetchVars, envVars>>

\* React renders the pending updates: the handlers are created anew and
\* close over the current feeds and refreshing (the effect that stores
\* handleRefreshAll in handleRefreshAllRef.current runs with the commit).
Render ==
    /\ stale > 0
    /\ stale' = 0
    /\ dirty' = FALSE
    /\ view' = [feeds |-> feeds, refreshing |-> refreshing]
    /\ IF dirty THEN SaveEffect(feeds) ELSE UNCHANGED timerVars
    /\ UNCHANGED <<phase, feeds, refreshing, passes, sub, bulk, userOps>>
    /\ UNCHANGED <<fetchVars, storeVars, envVars>>

\* const feedsToUpdate = feeds.filter(f => !f.url.startsWith('local://'))
FeedsToUpdateM(fs) == fs

FeedsToUpdate(fs) == LET Remote(f) == ~IsLocal(f.url) IN SelectSeq(fs, Remote)

\* pMap(array, mapper, 3) up to its await: each of the three workers takes
\* the next index while one is left and calls the mapper, which calls
\* fetchFeed.
StartPassM(array) ==
    LET n == Len(array)
    IN [state |-> "running", snap |-> array, index |-> n,
        out |-> [i \in 1..n |-> "claimed"],
        calls |-> [i \in 1..n |-> 1],
        fetched |-> [i \in 1..n |-> <<>>],
        res |-> array, failedCount |-> 0, updatedCount |-> 0]

StartPass(array) ==
    LET n == Len(array)
        k == Min(PoolWidth, n)
    IN [state |-> "running", snap |-> array, index |-> k,
        out |-> [i \in 1..n |-> IF i <= k THEN "claimed" ELSE "queued"],
        calls |-> [i \in 1..n |-> IF i <= k THEN 1 ELSE 0],
        fetched |-> [i \in 1..n |-> <<>>],
        res |-> array, failedCount |-> 0, updatedCount |-> 0]

\* if (refreshing) return
Guard(v) == ~v.refreshing

\* handleRefreshAll as created by the render v, up to its await
RefreshAll(v, fromClick) ==
    /\ Guard(v)
    /\ LET feedsToUpdate == FeedsToUpdate(v.feeds) IN
       IF feedsToUpdate = <<>>
       THEN /\ refreshing' = FALSE
            /\ UNCHANGED passes
       ELSE /\ refreshing' = TRUE
            /\ \E p \in PassIds :
                /\ passes[p].state = "idle"
                /\ \A q \in PassIds : q < p => passes[q].state # "idle"
                /\ passes' = [passes EXCEPT ![p] = StartPass(feedsToUpdate)]
    /\ UNCHANGED <<phase, feeds, sub, bulk, userOps>>
    /\ IF fromClick THEN Flushed(FALSE) ELSE Deferred(FALSE)
    /\ UNCHANGED <<fetchVars, storeVars, envVars>>

\* onRefreshAll={() => handleRefreshAll(false)}
ManualRefresh == phase = "ready" /\ RefreshAll(view, TRUE)

\* the interval timer: handleRefreshAllRef.current(true)
TimerRefresh == intervalTimers # {} /\ RefreshAll(view, FALSE)

\* catch (e) { failedCount++; return feed; }
OnFetchFailureM(pass, i) == [pass EXCEPT !.out[i] = "fail"]

OnFetchFailure(pass, i) ==
    [pass EXCEPT !.out[i] = "fail", !.failedCount = @ + 1]

\* the worker whose mapper returned takes the next index, if one is left
ClaimNextM(pass) == pass

ClaimNext(pass) ==
    IF pass.index < Len(pass.snap)
    THEN [pass EXCEPT !.index = @ + 1, !.out[pass.index + 1] = "claimed",
                      !.calls[pass.index + 1] = @ + 1]
    ELSE pass

\* pMap: results[i] = await mapper(array[i])
StoreResultM(pass, i, r) ==
    LET finished == {j \in DOMAIN pass.out : pass.out[j] \in {"ok", "fail"}}
    IN [pass EXCEPT !.res[Cardinality(finished)] = r]

StoreResult(pass, i, r) == [pass EXCEPT !.res[i] = r]

\* if (settings.downloadImages && newItems.length > 0): the mapper awaits
\* processContentForOffline of the first new items
CachesImages(feed, fetched) ==
    downloadImages /\ Len(NewItems(feed, fetched)) > 0

\* fetchFeed of the mapper for array[i] settles: the mapper merges or counts
\* the failure, and its worker goes on.
MapperDone(p, i) ==
    /\ passes[p].state = "running"
    /\ i \in DOMAIN passes[p].snap
    /\ passes[p].out[i] = "claimed"
    /\ \E o \in FetchOutcomes(passes[p].snap[i].url) :
        LET feed == passes[p].snap[i]
            merged == MergeFetched(feed, o.items, DateNow(feed.lastUpdated))
            got == [passes[p] EXCEPT !.fetched[i] = o.items]
            done == IF o.ok
                    THEN StoreResult([got EXCEPT !.out[i] = "ok"], i, merged)
                    ELSE OnFetchFailure(passes[p], i)
        IN /\ passes' = [passes EXCEPT ![p] =
                            IF o.ok /\ CachesImages(feed, o.items)
                            THEN [got EXCEPT !.out[i] = "caching"]
                            ELSE ClaimNext(done)]
    /\ UNCHANGED <<phase, feeds, refreshing, view, stale, sub, bulk, userOps, dirty>>
    /\ UNCHANGED timerVars
    /\ UNCHANGED <<fetchVars, storeVars, envVars>>

\* Every image request of processContentForOffline got its answer (an image
\* or a failure, which leaves the content as it was): Promise.all resolves,
\* the mapper merges and returns.
CacheDone(p, i) ==
    /\ passes[p].state = "running"
    /\ i \in DOMAIN passes[p].snap
    /\ passes[p].out[i] = "caching"
    /\ LET feed == passes[p].snap[i]
           merged == MergeFetched(feed, passes[p].fetched[i],
                                  DateNow(feed.lastUpdated))
           done == StoreResult([passes[p] EXCEPT !.out[i] = "ok"], i, merged)
       IN passes' = [passes EXCEPT ![p] = ClaimNext(done)]
    /\ UNCHANGED <<phase, feeds, refreshing, view, stale, sub, bulk, userOps, dirty>>
    /\ UNCHANGED timerVars
    /\ UNCHANGED <<fetchVars, storeVars, envVars>>

AllDone(pass) == \A i \in DOMAIN pass.out : pass.out[i] \in {"ok", "fail"}

\* pMap resolved: setFeeds(...), updatedCount, finally setRefreshing(false)
ApplyPass(p) ==
    /\ passes[p].state = "running"
    /\ AllDone(passes[p])
    /\ feeds' = ApplyResults(feeds, passes[p].res)
    /\ refreshing' = FALSE
    /\ passes' = [passes EXCEPT ![p] =
                    [NoPass EXCEPT !.state = "done",
                                   !.failedCount = passes[p].failedCount,
                                   !.updatedCount = Len(passes[p].snap)
                                                    - passes[p].failedCount]]
    /\ Deferred(TRUE)
    /\ UNCHANGED <<phase, sub, bulk, userOps>>
    /\ UNCHANGED <<fetchVars, storeVars, envVars>>

----------------------------------------------------------------------------
(* App.tsx: the handlers that change the collection                        *)

\* (i.id === item.id) || (i.link === item.link)
SameItem(i, item) == i.id = item.id \/ i.link = item.link

ViewItems == UNION {Range(f.items) : f \in Range(view.feeds)}

ViewUrls == {f.url : f \in Range(view.feeds)}

handleToggleFavorite(prev, item) ==
    LET Flip(i) == IF SameItem(i, item)
                   THEN [i EXCEPT !.isFavorite = ~@] ELSE i
        OnFeed(f) == [f EXCEPT !.items = SeqMap(Flip, @)]
    IN SeqMap(OnFeed, prev)

handleToggleReadLaterM(prev, item) ==
    LET Flip(i) == IF SameItem(i, item)
                   THEN [i EXCEPT !.isReadLater = ~@]
                   ELSE i
        OnFeed(f) == [f EXCEPT !.items = SeqMap(Flip, @)]
    IN SeqMap(OnFeed, prev)

handleToggleReadLater(prev, item) ==
    LET Flip(i) == IF SameItem(i, item)
                   THEN [i EXCEPT !.isReadLater = ~@,
                                  !.isRead = IF ~i.isReadLater THEN FALSE ELSE @]
                   ELSE i
        OnFeed(f) == [f EXCEPT !.items = SeqMap(Flip, @)]
    IN SeqMap(OnFeed, prev)

handleMarkAsRead(prev, item) ==
    LET OnFeed(f) ==
            IF item.feedUrl # "" /\ f.url # item.feedUrl THEN f
            ELSE LET hits == {k \in DOMAIN f.items : SameItem(f.items[k], item)}
                 IN IF hits = {} THEN f
                    ELSE LET itemIndex == CHOOSE k \in hits :
                                             \A j \in hits : k <= j
                         IN [f EXCEPT !.items[itemIndex].isRead = TRUE]
    IN SeqMap(OnFeed, prev)

handleToggleMute(prev, feedUrl) ==
    LET OnFeed(f) == IF f.url = feedUrl THEN [f EXCEPT !.isMuted = ~@] ELSE f
    IN SeqMap(OnFeed, prev)

handleMoveFeedToCategory(prev, feedUrl, categoryId) ==
    LET OnFeed(f) == IF f.url = feedUrl
                     THEN [f EXCEPT !.categoryId = categoryId] ELSE f
    IN SeqMap(OnFeed, prev)

handleDeleteFeed(prev, url) ==
    LET Keep(f) == f.url # url IN SelectSeq(prev, Keep)

\* a user action that replaces the collection by op(prev)
UserSets(new) ==
    /\ phase = "ready"
    /\ userOps < opsAllowed
    /\ userOps' = userOps + 1
    /\ feeds' = new
    /\ UNCHANGED <<phase, refreshing, passes, sub, bulk>>
    /\ Flushed(TRUE)
    /\ UNCHANGED <<fetchVars, storeVars, envVars>>

ToggleFavorite == \E item \in ViewItems : UserSets(handleToggleFavorite(feeds, item))

ToggleReadLater == \E item \in ViewItems : UserSets(handleToggleReadLater(feeds, item))

MarkAsRead ==
    \E item \in ViewItems :
        /\ ~item.isRead
        /\ UserSets(handleMarkAsRead(feeds, item))

ToggleMute == \E u \in ViewUrls : UserSets(handleToggleMute(feeds, u))

MoveFeedToCategory ==
    \E u \in ViewUrls, c \in Categories :
        UserSets(handleMoveFeedToCategory(feeds, u, c))

DeleteFeed == \E u \in ViewUrls : UserSets(handleDeleteFeed(feeds, u))

\* no handleAddFeedSubmit is under way; `cancelled` is the state of the
\* signal of its AbortController
NoSub == [state |-> "idle", url |-> "", items |-> <<>>, cancelled |-> FALSE]

\* handleAddFeedSubmit up to `await fetchFeed(...)`
SubscribeStart ==
    /\ phase = "ready"
    /\ userOps < opsAllowed
    /\ sub.state = "idle"
    /\ \E u \in Urls \ {GuideFeed.url} :
        /\ ~(\E f \in Range(view.feeds) : f.url = u)
        /\ sub' = [NoSub EXCEPT !.state = "fetching", !.url = u]
    /\ userOps' = userOps + 1
    /\ UNCHANGED <<phase, feeds, refreshing, passes, bulk>>
    /\ Flushed(FALSE)
    /\ UNCHANGED <<fetchVars, storeVars, envVars>>

\* newFeed.items.map(item => ({...item, id, feedUrl, isFavorite: false, isRead: false}))
Subscribed(u, fetched, t) ==
    LET Own(i) == [i EXCEPT !.id = OrElse(i.guid, i.link), !.feedUrl = u,
                            !.isFavorite = FALSE, !.isRead = FALSE]
    IN [Feed(u, SeqMap(Own, fetched)) EXCEPT !.lastUpdated = t]

\* handleAddFeedSubmit after `await fetchFeed(...)`: the catch, or
\* `if (settings.downloadImages) await processFeedItemsForOffline(...)`, or
\* straight on to setFeeds(prev => [...prev, newFeed])
SubscribeDone ==
    /\ sub.state = "fetching"
    /\ \E o \in FetchOutcomes(sub.url) :
        IF o.ok /\ downloadImages
        THEN /\ sub' = [sub EXCEPT !.state = "caching", !.items = o.items]
             /\ UNCHANGED <<feeds, view, stale, dirty>>
             /\ UNCHANGED timerVars
        ELSE /\ sub' = NoSub
             /\ IF o.ok
                THEN feeds' = Append(feeds, Subscribed(sub.url, o.items, DateNow(0)))
                ELSE UNCHANGED feeds
             /\ Deferred(o.ok)
    /\ UNCHANGED <<phase, refreshing, passes, bulk, userOps>>
    /\ UNCHANGED <<fetchVars, storeVars, envVars>>

\* processFeedItemsForOffline resolved: handleAddFeedSubmit goes on to
\* setFeeds(prev => [...prev, newFeed]) and its finally
SubscribeCached ==
    /\ sub.state = "caching"
    /\ sub' = NoSub
    /\ feeds' = Append(feeds, Subscribed(sub.url, sub.items, DateNow(0)))
    /\ Deferred(TRUE)
    /\ UNCHANGED <<phase, refreshing, passes, bulk, userOps>>
    /\ UNCHANGED <<fetchVars, storeVars, envVars>>

\* handleCancelAddFeed: addFeedAbortController.abort().  While fetchFeed is
\* awaited it rejects with 'Request cancelled' and the catch and the finally
\* of handleAddFeedSubmit run; after it, nothing listens to the signal.
CancelSubscribe ==
    /\ sub.state \in {"fetching", "caching"}
    /\ ~sub.cancelled
    /\ sub' = IF sub.state = "fetching" THEN NoSub
              ELSE [sub EXCEPT !.cancelled = TRUE]
    /\ Deferred(FALSE)
    /\ UNCHANGED <<phase, feeds, refreshing, passes, bulk, userOps>>
    /\ UNCHANGED <<fetchVars, storeVars, envVars>>

----------------------------------------------------------------------------
(* services/db.ts: saveData; hooks/useFeeds: the debounced write           *)

MaxWrites == 2

\* where a store operation can fail, and the DOMException names it fails with
FaultSites == {"open", "transaction", "put"}

FaultNames == {"QuotaExceededError", "UnknownError"}

NoFault == [site |-> "none", name |-> ""]

Faults == {NoFault} \cup [site : FaultSites, name : FaultNames]

NoSave == [kind |-> "", fault |-> NoFault, outcome |-> ""]

\* catch (error): quota errors become StorageQuotaError, others are rethrown
CatchBlock(name) ==
    IF name = "QuotaExceededError" THEN "StorageQuotaError" ELSE name

\* request.onerror of the put request
OnPutError(name) ==
    IF name = "QuotaExceededError" THEN "StorageQuotaError" ELSE name

\* What the promise of saveData settles with under a fault: "resolved", or
\* the name of the error it rejects with.  `await openDB()` is inside the
\* try; db.transaction() runs in the executor of the promise that is
\* returned without await, so what it throws rejects that promise and does
\* not pass through the catch.
saveData(fault) ==
    CASE fault.site = "open" -> CatchBlock(fault.name)
      [] fault.site = "transaction" -> fault.name
      [] fault.site = "put" -> OnPutError(fault.name)
      [] OTHER -> "resolved"

\* What the issuer of a write does when the promise of saveData settles.
\* The save effect chains .catch: alert for a StorageQuotaError,
\* console.error for anything else.  The load effect calls saveData after
\* the sweep and drops the promise: a rejection is an unhandled rejection.
OnSettled(kind, outcome) ==
    CASE outcome = "resolved" -> "none"
      [] kind = "sweep" -> "unhandledrejection"
      [] outcome = "StorageQuotaError" -> "alert"
      [] OTHER -> "console.error"

\* the number of save timers that are armed
PendingSaveTimers == Len(saveTimeoutRef) + Cardinality(strayTimers)

\* A save timer fires, 1000 ms after it was armed and not cleared since:
\* saveData(DATA_STORAGE_KEY, { feeds, categories }) with the feeds of the
\* render that armed it.
SaveTimerFires ==
    /\ Len(writes) < MaxWrites
    /\ \E fs \in Range(saveTimeoutRef) \cup strayTimers :
        /\ writes' = Append(writes, Write("debounced", fs))
        /\ IF saveTimeoutRef = <<fs>>
           THEN saveTimeoutRef' = <<>> /\ UNCHANGED strayTimers
           ELSE strayTimers' = strayTimers \ {fs} /\ UNCHANGED saveTimeoutRef
    /\ UNCHANGED <<disk, saveResult>>
    /\ UNCHANGED <<fetchVars, feedVars, envVars>>

\* saveData calls settling in any order
SaveSettlesM ==
    /\ phase # "loading"
    /\ \E i \in DOMAIN writes, fault \in Faults :
        /\ writes' = SubSeq(writes, 1, i - 1) \o SubSeq(writes, i + 1, Len(writes))
        /\ disk' = IF saveData(fault) = "resolved" THEN writes[i].data ELSE disk
        /\ saveResult' = [kind |-> writes[i].kind, fault |-> fault,
                          outcome |-> saveData(fault)]
    /\ UNCHANGED <<fetchVars, feedVars, timerVars, envVars>>

\* A saveData call settles: the put took effect, or a store operation failed.
\* The transactions on the one object store run in the order they were
\* created: the readonly transaction of the load before any readwrite one,
\* the readwrite ones in the order of the saveData calls.
SaveSettles ==
    /\ phase # "loading"
    /\ writes # <<>>
    /\ \E fault \in Faults :
        /\ writes' = Tail(writes)
        /\ disk' = IF saveData(fault) = "resolved" THEN Head(writes).data ELSE disk
        /\ saveResult' = [kind |-> Head(writes).kind, fault |-> fault,
                          outcome |-> saveData(fault)]
    /\ UNCHANGED <<fetchVars, feedVars, timerVars, envVars>>

----------------------------------------------------------------------------
(* hooks/useSettings and the auto refresh effect of hooks/useFeeds         *)

\* DEFAULT_SETTINGS.refreshInterval
DefaultRefreshInterval == 360

\* some of the choices the settings dialog offers (refreshIntervals)
RefreshIntervals == {0, 15, DefaultRefreshInterval}

MaxSettingOps == 2

\* window.setInterval(() => handleRefreshAllRef.current(true), minutes...)
IntervalTimer(id, minutes) == [id |-> id, minutes |-> minutes]

\* the effect's cleanup: if (intervalId) clearInterval(intervalId)
CleanupM(timers, id) == timers

Cleanup(timers, id) == {t \in timers : t.id # id}

\* startTimer() of an effect run whose setInterval would return id
StartTimer(timers, minutes, id) ==
    IF minutes = 0 THEN timers ELSE timers \cup {IntervalTimer(id, minutes)}

\* The effect with deps [settings.refreshInterval]: when the value of the
\* render differs from the one of the last render, the cleanup of the last
\* run, then startTimer().
AutoRefreshEffect(minutes, id) ==
    IF minutes = refreshInterval
    THEN UNCHANGED <<intervalTimers, intervalId>>
    ELSE /\ intervalTimers' =
                StartTimer(Cleanup(intervalTimers, intervalId), minutes, id)
         /\ intervalId' = IF minutes = 0 THEN 0 ELSE id

\* handleUpdateSettings('refreshInterval', v) from the settings dialog:
\* updateSettings({refreshInterval: v}), rendered with the click.
UpdateRefreshInterval ==
    /\ settingOps < MaxSettingOps
    /\ settingOps' = settingOps + 1
    /\ \E v \in RefreshIntervals :
        /\ refreshInterval' = v
        /\ AutoRefreshEffect(v, settingOps + 2)
    /\ UNCHANGED <<phase, feeds, refreshing, passes, sub, bulk, userOps>>
    /\ Flushed(FALSE)
    /\ UNCHANGED <<fetchVars, storeVars, lifecycle, downloadImages, opsAllowed>>

----------------------------------------------------------------------------
(* hooks/useAppLifecycle, and what is registered with it                   *)

\* The app goes to the background: the 'pause' and 'appStateChange'
\* listeners call callbacksRef.current.onPause.  The one registration is
\* App's, whose onPause writes a line to the console; useAutoSave is called
\* nowhere.
AppPause ==
    /\ lifecycle = "active"
    /\ lifecycle' = "paused"
    /\ UNCHANGED <<refreshInterval, intervalTimers, intervalId, settingOps,
                   downloadImages, opsAllowed>>
    /\ UNCHANGED <<fetchVars, feedVars, timerVars, storeVars>>

\* the app returns to the foreground: App's onResume writes a line
AppResume ==
    /\ lifecycle = "paused"
    /\ lifecycle' = "active"
    /\ UNCHANGED <<refreshInterval, intervalTimers, intervalId, settingOps,
                   downloadImages, opsAllowed>>
    /\ UNCHANGED <<fetchVars, feedVars, timerVars, storeVars>>

\* The owner of the feed state unmounts: the cleanups of its effects run.
\* The auto refresh effect clears its interval; the save effect returns no
\* cleanup.
Teardown ==
    /\ lifecycle = "active"
    /\ lifecycle' = "unmounted"
    /\ intervalTimers' = Cleanup(intervalTimers, intervalId)
    /\ UNCHANGED <<refreshInterval, intervalId, settingOps, downloadImages,
                   opsAllowed>>
    /\ UNCHANGED <<fetchVars, feedVars, timerVars, storeVars>>

\* The two handlers that add several feeds with one setFeeds.
BulkHandlers == {"onBatchAdd", "handleImportOPML"}

NoBulk == [state |-> "idle", todo |-> <<>>, got |-> <<>>]

\* what the handler is called with: RSSHubDirectory passes
\* Array.from(selectedFeeds), a Set; parseOPML pushes every outline it finds
BulkLists(h) ==
    IF h = "onBatchAdd"
    THEN {<<"u1", "u2">>}
    ELSE {<<"u2", "u2">>, <<"u1", "u2">>}

\* urls.filter(u => !feeds.some(f => f.url === u)) and
\* parsedFeeds.filter(f => !currentUrls.has(f.url)), on the feeds of the
\* render that created the handler
NotYetSubscribed(urls) ==
    LET Unknown(u) == u \notin ViewUrls IN SelectSeq(urls, Unknown)

\* the handler up to its first `await fetchFeed(...)`, or its early return
BulkStart(h) ==
    /\ phase = "ready"
    /\ userOps < opsAllowed
    /\ bulk[h].state = "idle"
    /\ userOps' = userOps + 1
    /\ \E urls \in BulkLists(h) :
        LET todo == NotYetSubscribed(urls) IN
        IF todo = <<>>
        THEN UNCHANGED bulk
        ELSE bulk' = [bulk EXCEPT ![h] = [state |-> "fetching", todo |-> todo,
                                          got |-> <<>>]]
    /\ UNCHANGED <<phase, feeds, refreshing, passes, sub>>
    /\ IF h = "onBatchAdd" THEN Flushed(FALSE) ELSE Deferred(TRUE)
    /\ UNCHANGED <<fetchVars, storeVars, envVars>>

\* fetchFeed for the next url of the list settles: the feed is pushed or the
\* failure is logged; after the last url the collected feeds are appended by
\* setFeeds(prev => [...prev, ...newFeeds])
BulkFetched(h) ==
    /\ bulk[h].state = "fetching"
    /\ \E o \in FetchOutcomes(Head(bulk[h].todo)) :
        LET u == Head(bulk[h].todo)
            rest == Tail(bulk[h].todo)
            got == IF o.ok
                   THEN Append(bulk[h].got, Subscribed(u, o.items, DateNow(0)))
                   ELSE bulk[h].got
        IN IF rest # <<>>
           THEN /\ bulk' = [bulk EXCEPT ![h].todo = rest, ![h].got = got]
                /\ UNCHANGED <<feeds, view, stale, dirty>>
                /\ UNCHANGED timerVars
           ELSE /\ bulk' = [bulk EXCEPT ![h] = NoBulk]
                /\ feeds' = feeds \o got
                /\ Deferred(h = "handleImportOPML" \/ got # <<>>)
    /\ UNCHANGED <<phase, refreshing, passes, sub, userOps>>
    /\ UNCHANGED <<fetchVars, storeVars, envVars>>

BatchAdd == BulkStart("onBatchAdd")

BatchFetched == BulkFetched("onBatchAdd")

ImportOPML == BulkStart("handleImportOPML")

ImportFetched == BulkFetched("handleImportOPML")

RefreshNext ==
    \/ Load
    \/ Render
    \/ ManualRefresh
    \/ TimerRefresh
    \/ \E p \in PassIds : \E i \in DOMAIN passes[p].snap : MapperDone(p, i)
    \/ \E p \in PassIds : ApplyPass(p)

\* the refresh of a collection larger than the pool
PoolNext ==
    \/ Load
    \/ Render
    \/ ManualRefresh
    \/ TimerRefresh
    \/ \E p \in PassIds : \E i \in DOMAIN passes[p].snap : MapperDone(p, i)
    \/ \E p \in PassIds : ApplyPass(p)

\* the settings dialog, the interval timer and mutations of the feeds
TimerNext ==
    \/ Load
    \/ Render
    \/ UpdateRefreshInterval
    \/ TimerRefresh
    \/ \E p \in PassIds : \E i \in DOMAIN passes[p].snap : MapperDone(p, i)
    \/ \E p \in PassIds : ApplyPass(p)
    \/ DeleteFeed

\* mutations, the save timer, and the app's pause, resume and teardown
LifeNext ==
    \/ lifecycle = "active" /\ Load
    \/ lifecycle = "active" /\ Render
    \/ lifecycle = "active" /\ ToggleFavorite
    \/ lifecycle = "active" /\ DeleteFeed
    \/ SaveTimerFires
    \/ SaveSettles
    \/ AppPause
    \/ AppResume
    \/ Teardown

\* load, render and the three flag mutations
FlagNext ==
    \/ Load
    \/ Render
    \/ ToggleFavorite
    \/ ToggleReadLater
    \/ MarkAsRead

\* load, render and the handlers that subscribe to feeds
AddNext ==
    \/ Load
    \/ Render
    \/ SubscribeStart
    \/ SubscribeDone
    \/ BatchAdd
    \/ BatchFetched
    \/ ImportOPML
    \/ ImportFetched

\* load, render, mutations of the collection and the writes to the store
SaveNext ==
    \/ Load
    \/ Render
    \/ ToggleFavorite
    \/ ToggleMute
    \/ DeleteFeed
    \/ SubscribeStart
    \/ SubscribeDone
    \/ SaveTimerFires
    \/ SaveSettles

\* the load-time sweep
SweepNext ==
    \/ Load
    \/ Render

FeedNext ==
    \/ RefreshNext
    \/ ToggleFavorite
    \/ ToggleReadLater
    \/ MarkAsRead
    \/ ToggleMute
    \/ MoveFeedToCategory
    \/ DeleteFeed
    \/ SubscribeStart
    \/ SubscribeDone

----------------------------------------------------------------------------

FetchInit ==
    /\ fpc = "idle"
    /\ signal = "none"
    /\ att = [k \in Strategies |-> NoAttempt]
    /\ errors = <<>>
    /\ fresult = NoResult
    /\ started = <<>>
    /\ abortMark = -1

FeedInit ==
    /\ phase = "loading"
    /\ feeds = <<>>
    /\ refreshing = FALSE
    /\ view = [feeds |-> <<>>, refreshing |-> FALSE]
    /\ stale = 0
    /\ passes = [p \in PassIds |-> NoPass]
    /\ sub = NoSub
    /\ bulk = [h \in BulkHandlers |-> NoBulk]
    /\ userOps = 0
    /\ dirty = FALSE

\* The first render has armed the save timer with the initial feeds, [].
SaveInit ==
    /\ saveTimeoutRef = << <<>> >>
    /\ strayTimers = {}
    /\ writes = <<>>
    /\ saveResult = NoSave

\* The first render has run the auto refresh effect with the setting m.
EnvInit(m) ==
    /\ refreshInterval = m
    /\ intervalTimers = StartTimer({}, m, 1)
    /\ intervalId = IF m = 0 THEN 0 ELSE 1
    /\ settingOps = 0
    /\ lifecycle = "active"

\* the settings were saved with offline caching turned off; the run is
\* followed for MaxUserOps user actions
CachingOff == downloadImages = FALSE /\ opsAllowed = MaxUserOps

PlainInit ==
    /\ FetchInit /\ FeedInit /\ SaveInit
    /\ EnvInit(DefaultRefreshInterval) /\ CachingOff

Init == PlainInit /\ disk \in StoredChoices

InitPool == PlainInit /\ disk \in ManyFeeds \cup {<<>>}

InitTimer ==
    /\ FetchInit /\ FeedInit /\ SaveInit
    /\ \E m \in RefreshIntervals : EnvInit(m)
    /\ CachingOff
    /\ disk \in {s \in StoredChoices : Len(s) > 0 /\ s[Len(s)] = GuideFeed}

\* the auto refresh timer under settings updates and feed mutations
SpecTimer == InitTimer /\ [][TimerNext]_vars

\* the save timer across pause, resume and teardown
SpecLife == Init /\ [][LifeNext]_vars

InitFlags == PlainInit /\ disk \in FlagInputs

\* the flag mutations on a stored collection
SpecFlags == InitFlags /\ [][FlagNext]_vars

\* one fetchFeed call
SpecFetch == Init /\ [][FetchNext]_vars

\* the sync orchestrator: load, render and refreshes
SpecRefresh == Init /\ [][RefreshNext]_vars

InitSweep == PlainInit /\ disk \in SweepInputs

\* the sweep on load, over stored collections of one feed
SpecSweep == InitSweep /\ [][SweepNext]_vars

\* persistence: the debounced write and saveData
SpecSave == Init /\ [][SaveNext]_vars

\* the worker pool of a refresh
SpecPool == InitPool /\ [][PoolNext]_vars

\* a refresh with the offline caching preference on or off
LiveNext ==
    \/ Load
    \/ Render
    \/ ManualRefresh
    \/ \E p \in PassIds : \E i \in DOMAIN passes[p].snap : MapperDone(p, i)
    \/ \E p \in PassIds : \E i \in DOMAIN passes[p].snap : CacheDone(p, i)
    \/ \E p \in PassIds : ApplyPass(p)

InitLive ==
    /\ FetchInit /\ FeedInit /\ SaveInit
    /\ EnvInit(DefaultRefreshInterval) /\ downloadImages \in BOOLEAN
    /\ opsAllowed = MaxUserOps
    /\ disk \in StoredChoices

\* What the program itself guarantees to happen: the load effect runs,
\* React renders, every fetchFeed settles (each attempt is raced against
\* its 10 s timer), and the continuation of a resolved pMap runs.  An
\* image request of the content processor has no timer: nothing guarantees
\* its answer.
LiveFairness ==
    /\ WF_vars(Load)
    /\ WF_vars(Render)
    /\ WF_vars(\E p \in PassIds : \E i \in DOMAIN passes[p].snap : MapperDone(p, i))
    /\ WF_vars(\E p \in PassIds : ApplyPass(p))

SpecLive == InitLive /\ [][LiveNext]_vars /\ LiveFairness

\* What is bound to happen: the load effect gets its answer, React renders
\* a pending update, an armed timer fires, a store request settles.
SaveFairness ==
    /\ WF_vars(Load)
    /\ WF_vars(Render)
    /\ WF_vars(SaveTimerFires)
    /\ WF_vars(SaveSettles)

SpecSaveFair == Init /\ [][SaveNext]_vars /\ SaveFairness

\* the start of the app: the load, which may fail, and the save effect
BootNext ==
    \/ Load
    \/ LoadFails
    \/ Render
    \/ ToggleFavorite
    \/ ToggleMute
    \/ SaveTimerFires
    \/ SaveSettles

SpecBoot == Init /\ [][BootNext]_vars

\* a refresh while the user deletes and subscribes feeds
ChurnNext ==
    \/ Load
    \/ Render
    \/ ManualRefresh
    \/ \E p \in PassIds : \E i \in DOMAIN passes[p].snap : MapperDone(p, i)
    \/ \E p \in PassIds : ApplyPass(p)
    \/ DeleteFeed
    \/ SubscribeStart
    \/ SubscribeDone

InitChurn ==
    /\ FetchInit /\ FeedInit /\ SaveInit
    /\ EnvInit(DefaultRefreshInterval)
    /\ downloadImages = FALSE /\ opsAllowed = MaxChurnOps
    /\ disk \in StoredChoices

SpecChurn == InitChurn /\ [][ChurnNext]_vars

\* a subscription and its cancel button, with offline caching on or off
CancelNext ==
    \/ Load
    \/ Render
    \/ SubscribeStart
    \/ SubscribeDone
    \/ SubscribeCached
    \/ CancelSubscribe
    \/ ToggleMute

SpecCancel == InitLive /\ [][CancelNext]_vars

\* the subscriptions: single, batch and OPML import
SpecAdd == Init /\ [][AddNext]_vars

\* the feed state owner, its refreshes and the user's actions
Spec == Init /\ [][FeedNext]_vars


----------------------------------------------------------------------------
(* Properties of fetchFeed                                                 *)

Failed(k) == att[k].outer \in {"fail", "timeout"}

\* C1: strategies are started in the fixed order Native/Direct, RSS2JSON
\* Service, AllOrigins, CorsProxy, each only after every earlier one failed or
\* timed out; on the first success fetchFeed resolves with that strategy's
\* feed, no later strategy is started and no recorded error is reported.
C1_FixedOrderFirstSuccess ==
    /\ \A i \in 1..Len(started) :
        /\ started[i] = i
        /\ \A j \in 1..(i - 1) : Failed(j)
    /\ fpc = "resolved" <=> fresult.kind = "feed"
    /\ fresult.kind = "feed" =>
        /\ fresult.from = started[Len(started)]
        /\ att[fresult.from].outer = "ok"
        /\ fresult.details = <<>>
        /\ \A k \in Strategies : k > fresult.from => att[k] = NoAttempt

\* A fails, B times out, C succeeds: fetchFeed resolved with C's feed.
C1_Witness ==
    /\ fpc = "resolved"
    /\ fresult.from = 3
    /\ att[1].outer = "fail"
    /\ att[2].outer = "timeout"
    /\ Len(errors) = 2

\* C2: when the signal fires before fetchFeed has returned (or was already
\* fired at the call), fetchFeed rejects with the cancellation error and no
\* strategy is started after the signal fired.
C2_CancellationAborts ==
    abortMark >= 0 =>
        /\ fpc = "rejected"
        /\ fresult.kind = "cancelled"
        /\ Len(started) = abortMark

\* Cancelled while the second strategy was in flight.
C2_Witness ==
    /\ abortMark = 2
    /\ fresult.kind = "cancelled"
    /\ att[2].outer = "cancelled"

\* C3: when every strategy failed or timed out, fetchFeed rejects with one
\* consolidated error listing exactly one (strategy name, reason) entry per
\* strategy, in strategy order.
C3_AggregateError ==
    /\ (\A k \in Strategies : Failed(k)) <=> fresult.kind = "aggregate"
    /\ fresult.kind = "aggregate" =>
        /\ fpc = "rejected"
        /\ Len(fresult.details) = NumStrategies
        /\ \A k \in Strategies :
            fresult.details[k] = StrategyNames[k] \o " failed: " \o att[k].reason

\* All four failed, by rejection and by timeout.
C3_Witness ==
    /\ fresult.kind = "aggregate"
    /\ att[1].outer = "fail"
    /\ att[2].outer = "timeout"
    /\ att[4].outer = "fail"

\* C4: an attempt whose timer fired before the strategy settled counts as a
\* failure of that strategy: the timeout is its recorded reason and the next
\* strategy is started; a timer that fired decides the attempt whatever the
\* strategy's promise does later, and a strategy that settled first cleared
\* the timer.
C4_TimeoutIsFailure ==
    \A k \in Strategies :
        /\ att[k].timer = "fired" <=> att[k].outer = "timeout"
        /\ att[k].outer = "timeout" =>
            /\ Len(errors) >= k
            /\ errors[k] = StrategyNames[k] \o " failed: " \o TimeoutMsg
            /\ IF k < NumStrategies
               THEN att[k + 1].outer # "none"
               ELSE fresult.kind = "aggregate"
        /\ att[k].outer \in {"ok", "fail"} =>
            att[k].timer = "cleared" /\ att[k].inner = att[k].outer

\* Strategy 1 timed out, strategy 2 produced the feed, and strategy 1's
\* promise fulfilled afterwards.
C4_Witness ==
    /\ att[1].timer = "fired"
    /\ att[1].inner = "ok"
    /\ fresult.kind = "feed"
    /\ fresult.from = 2

----------------------------------------------------------------------------
(* Properties of the refresh                                               *)

Running == {p \in PassIds : passes[p].state = "running"}

\* the (guid, link) pairs of an item list, in order
Keys(its) == [k \in 1..Len(its) |-> <<its[k].guid, its[k].link>>]

Guids(feed) == {x.guid : x \in Range(feed.items)}

Links(feed) == {x.link : x \in Range(feed.items)}

\* a merged list: `fresh` of the fetched items, in fetched order, then every
\* existing item as it was
MergedAs(pass, i, Fresh(_)) ==
    LET old == pass.snap[i].items
        new == pass.res[i].items
        add == Len(new) - Len(old)
    IN /\ add >= 0
       /\ SubSeq(new, add + 1, Len(new)) = old
       /\ Keys(SubSeq(new, 1, add)) = Keys(SelectSeq(pass.fetched[i], Fresh))

\* C5 as claimed: after a successful fetch the merged list is the fetched
\* items whose guid is not among the existing guids and whose link is not
\* among the existing links, in fetched order, followed by the existing items.
C5_MergeAsClaimed ==
    \A p \in Running : \A i \in DOMAIN passes[p].snap :
        passes[p].out[i] = "ok" =>
            LET Fresh(x) == /\ x.guid \notin Guids(passes[p].snap[i])
                            /\ x.link \notin Links(passes[p].snap[i])
            IN MergedAs(passes[p], i, Fresh)

\* C5 (amended): after a successful fetch the merged list is the fetched
\* items that have neither a non-empty guid found among the existing guids
\* nor a non-empty link found among the existing links (an empty guid or link
\* matches nothing), in fetched order, followed by all existing items in
\* their original order.
C5_MergePrependsNew ==
    \A p \in Running : \A i \in DOMAIN passes[p].snap :
        passes[p].out[i] = "ok" =>
            LET Fresh(x) ==
                    /\ x.guid = "" \/ x.guid \notin Guids(passes[p].snap[i])
                    /\ x.link = "" \/ x.link \notin Links(passes[p].snap[i])
            IN MergedAs(passes[p], i, Fresh)

\* existing {g1, g2}; fetched [g1 (known), g3 (new), g4 (link of g1)]: the
\* merged order is [g3, g1, g2] and lastUpdated is bumped.
C5_Witness ==
    \E p \in Running : \E i \in DOMAIN passes[p].snap :
        /\ passes[p].out[i] = "ok"
        /\ passes[p].fetched[i] = <<E1, E3, E4>>
        /\ Keys(passes[p].snap[i].items) = <<<<"g1", "l1">>, <<"g2", "">>>>
        /\ Keys(passes[p].res[i].items) =
               <<<<"g3", "l3">>, <<"g1", "l1">>, <<"g2", "">>>>
        /\ passes[p].res[i].lastUpdated # passes[p].snap[i].lastUpdated

\* the identity key of an item: its guid, else its link
IdentityKey(x) == OrElse(x.guid, x.link)

\* C6: within each feed no two items share an identity key, and no two items
\* share a link when both links are non-empty.
C6_NoDuplicateItems ==
    \A f \in Range(feeds) : \A i, j \in DOMAIN f.items :
        i < j =>
            /\ IdentityKey(f.items[i]) # IdentityKey(f.items[j])
            /\ (f.items[i].link # "" /\ f.items[j].link # "")
                   => f.items[i].link # f.items[j].link

\* the step in which a refresh applies its results
Applying == \E p \in PassIds : passes[p].state = "running" /\ passes'[p].state = "done"

\* C7: applying a refresh's results loses no mutation made meanwhile: every
\* feed keeps its mute flag and category, and every item that stays keeps
\* its three flags.
C7_NoLostUpdate ==
    [][Applying =>
        \A j \in DOMAIN feeds :
            /\ feeds'[j].isMuted = feeds[j].isMuted
            /\ feeds'[j].categoryId = feeds[j].categoryId
            /\ \A x \in Range(feeds[j].items), y \in Range(feeds'[j].items) :
                (x.guid = y.guid /\ x.link = y.link) =>
                    /\ x.isFavorite = y.isFavorite
                    /\ x.isReadLater = y.isReadLater
                    /\ x.isRead = y.isRead]_vars

\* C8: at no time are two refresh passes running together.
C8_SingleRefresh == Cardinality(Running) <= 1

\* C9: a feed whose fetch failed is returned as it was and counted once; the
\* failure counter equals the number of failed feeds; the other feeds of the
\* batch are fetched all the same (none waits while a worker is free).
C9_FailureIsolated ==
    \A p \in Running :
        LET pass == passes[p]
            n == Len(pass.snap)
            failedSet == {i \in 1..n : pass.out[i] = "fail"}
            busy == {i \in 1..n : pass.out[i] = "claimed"}
        IN /\ pass.failedCount = Cardinality(failedSet)
           /\ \A i \in failedSet : pass.res[i] = pass.snap[i]
           /\ \A i \in 1..n : pass.out[i] = "queued" => Cardinality(busy) = PoolWidth
           /\ \A i \in 1..n : pass.out[i] \in {"claimed", "queued"} =>
                pass.res[i] = pass.snap[i]

\* one feed of a batch of two failed, the other was merged with new items
C9_Witness ==
    \E p \in Running :
        /\ Len(passes[p].snap) = 2
        /\ passes[p].out = <<"fail", "ok">>
        /\ passes[p].failedCount = 1
        /\ Len(passes[p].res[2].items) > Len(passes[p].snap[2].items)

\* C10: applying a refresh's results lowers no feed's item count and removes
\* no item.
C10_ApplyNeverShrinks ==
    [][Applying =>
        \A j \in DOMAIN feeds :
            /\ Len(feeds'[j].items) >= Len(feeds[j].items)
            /\ \A x \in Range(feeds[j].items) :
                \E y \in Range(feeds'[j].items) :
                    x.guid = y.guid /\ x.link = y.link]_vars

\* the feeds of a pass whose fetchFeed call is active
Busy(pass) == {i \in DOMAIN pass.out : pass.out[i] = "claimed"}

\* C12: in a refresh pass at most 3 fetchFeed calls are active at any time,
\* whatever the number of eligible feeds.
C12_PoolBound == \A p \in Running : Cardinality(Busy(passes[p])) <= PoolWidth

\* four eligible feeds: three are being fetched, the fourth waits
C12_Witness ==
    \E p \in Running :
        /\ Len(passes[p].snap) = 4
        /\ Cardinality(Busy(passes[p])) = PoolWidth
        /\ passes[p].out[4] = "queued"

\* C13: in one refresh pass every eligible feed is handed to the mapper
\* exactly once: the feeds taken so far are the first `index` of the batch,
\* each was fetched once, none that waits was fetched, a feed waits only
\* while all three workers are busy, and when the pass is complete every
\* feed has been fetched exactly once.
C13_EachFeedOnce ==
    \A p \in Running :
        LET pass == passes[p]
            n == Len(pass.snap)
        IN /\ pass.index <= n
           /\ \A i \in 1..n :
                /\ pass.out[i] = "queued" <=> i > pass.index
                /\ pass.calls[i] = IF i > pass.index THEN 0 ELSE 1
           /\ pass.index < n => Cardinality(Busy(pass)) = PoolWidth
           /\ AllDone(pass) => \A i \in 1..n : pass.calls[i] = 1

\* a pass over four feeds completed, the fourth taken by the worker that
\* finished first
C13_Witness ==
    \E p \in Running :
        /\ Len(passes[p].snap) = 4
        /\ AllDone(passes[p])
        /\ passes[p].calls = <<1, 1, 1, 1>>

\* the requests of the fetchFeed call that the network still works on
Outstanding == {k \in Strategies : att[k].inner = "inflight"}

\* C14: a fetchFeed call has at most one network request outstanding: when
\* a strategy attempt has ended, by failure or by timeout, its request is no
\* longer outstanding when the next strategy's request starts (so that three
\* workers have at most 3 requests outstanding).
C14_OneRequestPerFetch == Cardinality(Outstanding) <= 1

\* the urls of a collection, in order
UrlsOf(fs) == [i \in DOMAIN fs |-> fs[i].url]

\* a step of a refresh: its start, a mapper's return, or the apply
RefreshStep == passes' # passes

\* C15: a refresh keeps the collection's shape: no step of a refresh changes
\* the urls of the collection or their order, or any feed whose url starts
\* with local://, and no local feed is among the feeds a pass fetches.
C15_ShapeKept ==
    /\ [](\A p \in Running : \A i \in DOMAIN passes[p].snap :
            ~IsLocal(passes[p].snap[i].url))
    /\ [][RefreshStep =>
            /\ UrlsOf(feeds') = UrlsOf(feeds)
            /\ \A j \in DOMAIN feeds :
                  IsLocal(feeds[j].url) => feeds'[j] = feeds[j]]_vars

\* a refresh of [u1, guide] was applied: u1 got a new item in front, the
\* guide is as it was stored
C15_Witness ==
    /\ \E p \in PassIds : passes[p].state = "done" /\ passes[p].updatedCount = 1
    /\ UrlsOf(feeds) = <<"u1", "local://guide">>
    /\ Len(feeds[1].items) = 3
    /\ feeds[2] = GuideFeed

----------------------------------------------------------------------------
(* Properties of the collection                                            *)

\* C11: no two feeds of the collection share a url.
C11_UniqueUrls ==
    \A i, j \in DOMAIN feeds : i < j => feeds[i].url # feeds[j].url

----------------------------------------------------------------------------
(* Properties of the sweep                                                 *)

\* the step in which the load effect sweeps the stored collection
SweepStep == phase = "loading" /\ phase' = "ready" /\ Len(disk) > 0

Pinned(x) == x.isFavorite \/ x.isReadLater

\* C16: after a sweep every retained item of every feed is a favourite, or
\* is marked read-later, or has a pubDate that does not parse, or has a
\* pubDate later than 30 days before now.
C16_RetainedAreFresh ==
    [][SweepStep =>
        \A f \in Range(feeds') : \A x \in Range(f.items) :
            \/ Pinned(x)
            \/ x.pubDate = InvalidDate
            \/ x.pubDate > Today - RetentionDays]_vars

\* a stored feed of an expired item, an expired read-later item and an item
\* without a date was swept: the first is gone, the other two stay
C16_Witness ==
    /\ phase = "ready"
    /\ Len(disk) = 1 /\ Keys(disk[1].items) = <<<<"g2", "">>, <<"g7", "l7">>, <<"g6", "l6">>>>
    /\ Len(feeds) = 1 /\ Keys(feeds[1].items) = <<<<"g7", "l7">>, <<"g6", "l6">>>>

\* C17: the sweep is idempotent: for a fixed current time, sweeping the
\* result of a sweep returns the same item lists.
C17_SweepIdempotent ==
    [][SweepStep =>
        UrlsOf(cleanupOldArticles(feeds')) = UrlsOf(feeds')
        /\ \A j \in DOMAIN feeds' :
               cleanupOldArticles(feeds')[j].items = feeds'[j].items]_vars

\* a stored feed with a duplicate, a link collision and an expired item was
\* swept to a shorter list
C17_Witness ==
    /\ phase = "ready"
    /\ Len(disk) = 1 /\ Keys(disk[1].items) = <<<<"g3", "l3">>, <<"g3", "l3">>, <<"g2", "">>>>
    /\ Len(feeds) = 1 /\ Keys(feeds[1].items) = <<<<"g3", "l3">>>>

\* C18: a sweep removes no item that is a favourite or marked read-later,
\* neither by its age filter nor by its dedup filter: every such item of the
\* stored feed is still in the feed after the sweep.
C18_PinnedSurvive ==
    [][SweepStep =>
        \A j \in DOMAIN disk : \A x \in Range(disk[j].items) :
            Pinned(x) =>
                \E y \in Range(feeds'[j].items) :
                    y.guid = x.guid /\ y.link = x.link]_vars

----------------------------------------------------------------------------
(* Properties of persistence                                               *)

\* C19: the write is a trailing debounce: at most one save timer is armed at
\* any time, and the armed timer carries the feeds of the last render; a
\* render of changed feeds leaves exactly the timer it armed; a debounced
\* write is issued with the feeds of the last render and leaves no timer
\* armed, so that the mutations before it produce that one write.
C19_TrailingDebounce ==
    /\ [](/\ PendingSaveTimers <= 1
          /\ saveTimeoutRef # <<>> => saveTimeoutRef[1] = view.feeds)
    /\ [][/\ view'.feeds # view.feeds =>
                saveTimeoutRef' = <<view'.feeds>> /\ strayTimers' = {}
          /\ (Len(writes') > Len(writes)
                /\ writes'[Len(writes')].kind = "debounced") =>
                /\ writes'[Len(writes')].data = view.feeds
                /\ PendingSaveTimers' = 0]_vars

\* load and one user mutation, each re-arming the timer, then one write: the
\* store holds the collection as of the last mutation and no timer is armed
C19_Witness ==
    /\ userOps = 1
    /\ feeds # <<>>
    /\ stale = 0
    /\ saveResult.kind = "debounced" /\ saveResult.outcome = "resolved"
    /\ disk = feeds
    /\ PendingSaveTimers = 0

\* C20: saveData rejects with StorageQuotaError exactly when a store
\* operation (open, transaction creation or put) failed with a quota error.
C20_QuotaIsTyped ==
    saveResult.outcome # "" =>
        (saveResult.outcome = "StorageQuotaError"
            <=> saveResult.fault.name = "QuotaExceededError")

----------------------------------------------------------------------------
(* Properties of the auto refresh timer                                    *)

\* C21: the auto refresh timer depends only on the refresh-interval
\* setting: at most one interval timer is armed, none when the setting is
\* 0 and otherwise one of the setting's period; the armed timers change
\* only in a step that changes the setting, and no step that changes the
\* feeds changes them.
C21_TimerFollowsSetting ==
    /\ [](/\ Cardinality(intervalTimers) <= 1
          /\ refreshInterval = 0 <=> intervalTimers = {}
          /\ \A t \in intervalTimers : t.minutes = refreshInterval)
    /\ [][/\ intervalTimers' # intervalTimers =>
                refreshInterval' # refreshInterval
          /\ feeds' # feeds => intervalTimers' = intervalTimers]_vars

\* the setting was changed twice and a feed was deleted meanwhile: the one
\* armed timer is the one the last change armed
C21_Witness ==
    /\ settingOps = 2
    /\ userOps > 0
    /\ refreshInterval = 15
    /\ intervalTimers = {IntervalTimer(3, 15)}

----------------------------------------------------------------------------
(* Properties of shutdown                                                  *)

\* C22: on shutdown (the app is paused, or the owner of the feed state is
\* torn down) the pending debounced write is flushed or its timer is
\* cancelled: no save timer is armed while the app is paused or unmounted.
C22_NoTimerAfterShutdown ==
    lifecycle # "active" => PendingSaveTimers = 0

----------------------------------------------------------------------------
(* Properties of the sweep after a merge                                   *)

\* the postconditions of the sweep on one feed
Swept(f) ==
    /\ \A x \in Range(f.items) : KeepByAge(x)
    /\ \A i, j \in DOMAIN f.items :
        i < j =>
            /\ IdentityKey(f.items[i]) # IdentityKey(f.items[j])
            /\ (f.items[i].link # "" /\ f.items[j].link # "")
                   => f.items[i].link # f.items[j].link

\* C23: the sweep runs after a merge: when a refresh has applied its
\* results, every feed of the collection has no unpinned item older than 30
\* days and no two items with the same identity key or link.
C23_SweptAfterMerge ==
    [][Applying => \A f \in Range(feeds') : Swept(f)]_vars

----------------------------------------------------------------------------
(* Properties of fetchFeed's error classes                                 *)

\* C24 as stated: an unrecognized-format error is fatal to the acquisition:
\* when a strategy failed because its response held no RSS channel, Atom
\* feed or RDF root, fetchFeed has rejected and has started no later
\* strategy.
C24_UnrecognizedIsFatal ==
    \A k \in Strategies :
        (att[k].outer = "fail" /\ att[k].reason = UnrecognizedMsg) =>
            /\ fpc = "rejected"
            /\ \A j \in Strategies : j > k => att[j] = NoAttempt

\* the place of strategy k among the strategies started so far
StartedAt(k) == CHOOSE n \in DOMAIN started : started[n] = k

\* C24 (amended): an unrecognized-format error is fatal to the strategy
\* attempt only: the attempt fails with that error, which is recorded as
\* that strategy's reason, and the next strategy is started; after the last
\* strategy fetchFeed rejects with the aggregate error.
C24_UnrecognizedFallsThrough ==
    \A k \in Strategies :
        (att[k].outer = "fail" /\ att[k].reason = UnrecognizedMsg) =>
            /\ k \in Range(started)
            /\ Len(errors) >= StartedAt(k)
            /\ errors[StartedAt(k)] =
                   StrategyNames[k] \o " failed: " \o UnrecognizedMsg
            /\ IF k < NumStrategies
               THEN att[NextStrategy(k)] # NoAttempt
               ELSE fpc = "rejected" /\ fresult.kind = "aggregate"

\* Native/Direct received a body without a channel; RSS2JSON Service then
\* delivered the feed
C24_Witness ==
    /\ att[1].outer = "fail" /\ att[1].reason = UnrecognizedMsg
    /\ fpc = "resolved"
    /\ fresult.kind = "feed" /\ fresult.from = 2

\* C25: when the signal of a fetchFeed call has fired, the call has no
\* request outstanding and no timeout timer pending.
C25_CancelLeavesNothing ==
    signal = "aborted" =>
        /\ Outstanding = {}
        /\ \A k \in Strategies : att[k].timer # "armed"

----------------------------------------------------------------------------
(* Properties of the flag mutations                                        *)

Flags == {"isRead", "isFavorite", "isReadLater"}

\* new has the feeds and items of old at the same places, and every item
\* has kept the flags of `kept`
KeepsFlags(old, new, kept) ==
    /\ Len(new) = Len(old)
    /\ \A j \in DOMAIN old :
        /\ Len(new[j].items) = Len(old[j].items)
        /\ \A k \in DOMAIN old[j].items : \A fl \in kept :
               new[j].items[k][fl] = old[j].items[k][fl]

SamePoint(x, y) ==
    \/ IdentityKey(x) = IdentityKey(y)
    \/ x.link # "" /\ x.link = y.link

\* new differs from old only in items that are the same point as item
OnlyAt(old, new, item) ==
    /\ Len(new) = Len(old)
    /\ \A j \in DOMAIN old :
        /\ Len(new[j].items) = Len(old[j].items)
        /\ \A k \in DOMAIN old[j].items :
               ~SamePoint(old[j].items[k], item) =>
                   new[j].items[k] = old[j].items[k]

\* C27: the flag mutations are point mutations: toggleFavorite,
\* toggleReadLater and markRead for an item change only items that have
\* its identity key or its link; every other item of every feed is as it
\* was, also when items have no link.
C27_PointMutations ==
    [][\A item \in ViewItems :
        /\ feeds' = handleToggleFavorite(feeds, item) =>
              OnlyAt(feeds, feeds', item)
        /\ feeds' = handleToggleReadLater(feeds, item) =>
              OnlyAt(feeds, feeds', item)
        /\ feeds' = handleMarkAsRead(feeds, item) =>
              OnlyAt(feeds, feeds', item)]_vars

----------------------------------------------------------------------------
(* Properties of the merge result                                          *)

\* a fetched item that the feed knows by its guid or by its link
KnownIn(feed, x) ==
    \/ x.guid # "" /\ x.guid \in Guids(feed)
    \/ x.link # "" /\ x.link \in Links(feed)

\* C28: when a successful fetch brings no new entry, the mapper returns the
\* feed as it was, items, order and lastUpdated; lastUpdated changes in a
\* refresh if and only if at least one new entry was prepended.
C28_UnchangedWhenNothingNew ==
    \A p \in Running : \A i \in DOMAIN passes[p].snap :
        LET old == passes[p].snap[i]
            new == passes[p].res[i]
        IN /\ (passes[p].out[i] = "ok"
               /\ \A x \in Range(passes[p].fetched[i]) : KnownIn(old, x))
                 => new = old
           /\ new.lastUpdated # old.lastUpdated
                 <=> Len(new.items) > Len(old.items)

\* of two feeds refreshed in one pass, one was served entries it has and is
\* as it was, the other was served a new entry and has a new lastUpdated
C28_Witness ==
    \E p \in Running :
        /\ Len(passes[p].snap) = 2
        /\ passes[p].out = <<"ok", "ok">>
        /\ passes[p].fetched[1] # <<>>
        /\ passes[p].res[1] = passes[p].snap[1]
        /\ Len(passes[p].res[2].items) > Len(passes[p].snap[2].items)
        /\ passes[p].res[2].lastUpdated # passes[p].snap[2].lastUpdated

----------------------------------------------------------------------------
(* Properties of the two filters of the sweep                              *)

\* the key of the dedup loop: item.id || item.guid || item.link
DedupKey(x) == OrElse(x.id, OrElse(x.guid, x.link))

\* with y kept earlier, the dedup loop drops x
Shadows(y, x) ==
    LET seen == {DedupKey(y)} \cup (IF y.link # "" THEN {y.link} ELSE {})
    IN DedupKey(x) \in seen \/ (x.link # "" /\ x.link \in seen)

\* x of the stored feed j got through the age filter: it is in the swept
\* feed, or the dedup loop dropped it for an item that is
PassedAgeFilter(j, x) ==
    \/ x \in Range(feeds'[j].items)
    \/ \E y \in Range(feeds'[j].items) : Shadows(y, x)

\* C29 as stated: the age filter removes an item if and only if it is
\* neither a favourite nor read-later and its pubDate parses to an instant
\* more than 30 days before now; an item aged exactly 30 days is kept.
C29_AgeFilter ==
    [][SweepStep =>
        \A j \in DOMAIN disk : \A x \in Range(disk[j].items) :
            IF ~Pinned(x) /\ x.pubDate # InvalidDate
                          /\ x.pubDate < Today - RetentionDays
            THEN x \notin Range(feeds'[j].items)
            ELSE PassedAgeFilter(j, x)]_vars

\* C29 (amended): the age filter removes an item if and only if it is
\* neither a favourite nor read-later and its pubDate parses to an instant
\* 30 days or more before now; an item aged exactly 30 days is removed.
C29_AgeFilterStrict ==
    [][SweepStep =>
        \A j \in DOMAIN disk : \A x \in Range(disk[j].items) :
            IF ~Pinned(x) /\ x.pubDate # InvalidDate
                          /\ x.pubDate <= Today - RetentionDays
            THEN x \notin Range(feeds'[j].items)
            ELSE PassedAgeFilter(j, x)]_vars

\* a stored feed of an item aged exactly 30 days, an item without a date
\* and a recent item was swept: the first is gone
C29_Witness ==
    /\ phase = "ready"
    /\ Len(disk) = 1 /\ Keys(disk[1].items) = <<<<"g8", "l8">>, <<"g6", "l6">>, <<"g3", "l3">>>>
    /\ Len(feeds) = 1 /\ Keys(feeds[1].items) = <<<<"g6", "l6">>, <<"g3", "l3">>>>

\* the items of its that have no earlier item with the same identity key
\* and no earlier item with the same non-empty link
FirstOccurrences(its) ==
    LET First(k) ==
            \A m \in 1..(k - 1) :
                /\ IdentityKey(its[m]) # IdentityKey(its[k])
                /\ its[k].link = "" \/ its[m].link # its[k].link
        idx == SelectSeq([k \in 1..Len(its) |-> k], First)
    IN [n \in 1..Len(idx) |-> its[idx[n]]]

\* C30: the dedup filter, scanning in array order, keeps an item if and
\* only if no earlier item has the same identity key and no earlier item
\* has the same non-empty link; an identity key that equals an earlier
\* item's link does not make an item a duplicate.
C30_DedupFirstOccurrences ==
    [][SweepStep =>
        \A j \in DOMAIN disk :
            feeds'[j].items =
                FirstOccurrences(SelectSeq(disk[j].items, KeepByAge))]_vars

----------------------------------------------------------------------------
(* Properties of a refresh pass as a whole                                 *)

\* what the mapper returns for a feed of the snapshot, from the outcome of
\* that feed's own fetch
PerFeed(pass, i) ==
    IF pass.out[i] = "ok"
    THEN MergeFetched(pass.snap[i], pass.fetched[i],
                      DateNow(pass.snap[i].lastUpdated))
    ELSE pass.snap[i]

\* the collection after the pass, from the collection before and the feeds'
\* own outcomes: a feed that the pass fetched is replaced by its result
ExpectedAfter(prev, pass) ==
    LET Of(f) == {i \in DOMAIN pass.snap : pass.snap[i].url = f.url}
        Last(f) == CHOOSE i \in Of(f) : \A j \in Of(f) : j <= i
        Pick(f) == IF Of(f) = {} THEN f ELSE PerFeed(pass, Last(f))
    IN [k \in DOMAIN prev |-> Pick(prev[k])]

\* C31: the collection a refresh produces does not depend on the order in
\* which the workers complete: whichever mappers have returned so far, the
\* result at each place is the one of the feed at that place, and the
\* collection after the pass is determined by the collection before it and
\* each feed's own fetch outcome.
C31_OrderIndependent ==
    /\ [](\A p \in Running : \A i \in DOMAIN passes[p].snap :
            passes[p].out[i] \in {"ok", "fail"} =>
                passes[p].res[i] = PerFeed(passes[p], i))
    /\ [][\A p \in PassIds :
            (passes[p].state = "running" /\ passes'[p].state = "done") =>
                feeds' = ExpectedAfter(feeds, passes[p])]_vars

\* the mapper of the second feed returned, with a new item, while the
\* mapper of the first is still waiting for its fetch
C31_Witness ==
    \E p \in Running :
        /\ passes[p].out = <<"claimed", "ok">>
        /\ Len(passes[p].res[2].items) > Len(passes[p].snap[2].items)

\* C32: every refresh that passes the guard eventually finishes and clears
\* the in-flight flag, with or without offline image caching.
C32_RefreshFinishes ==
    \A p \in PassIds :
        (passes[p].state = "running") ~>
            (passes[p].state = "done" /\ ~refreshing)

----------------------------------------------------------------------------
(* Properties of the writes to the store                                   *)

\* C33: every write to the store, the debounced write and the write after a
\* load-time sweep, has its failure observed by its issuer: a quota failure
\* leads to the storage-full message, and no failure goes unhandled.
C33_FailuresObserved ==
    saveResult.outcome \notin {"", "resolved"} =>
        LET does == OnSettled(saveResult.kind, saveResult.outcome) IN
        /\ does # "unhandledrejection"
        /\ saveResult.fault.name = "QuotaExceededError" => does = "alert"

\* C34: the debounced writer never persists the initial empty in-memory
\* collection over existing stored data, also when the load takes longer
\* than the debounce window or fails.  (No step of SpecBoot empties the
\* collection, so an empty collection written is the initial one.)
C34_NoEmptyOverStored == [][disk # <<>> => disk' # <<>>]_vars

\* a saveData call was rejected
WriteFailed == saveResult.outcome \notin {"", "resolved"}

----------------------------------------------------------------------------
(* Properties of late strategy results                                     *)

\* attempt k has timed out or was cancelled and its request is still out
GaveUpOn(k) ==
    att[k].outer \in {"timeout", "cancelled"} /\ att[k].inner = "inflight"

\* C36: a strategy result that arrives after its attempt timed out or was
\* cancelled is discarded: the attempt keeps its outcome, and neither the
\* position of fetchFeed, its result, its error list, any other attempt nor
\* the collection changes.
C36_LateResultDiscarded ==
    [][\A k \in Strategies :
        (GaveUpOn(k) /\ att'[k].inner \in {"ok", "fail"}) =>
            /\ att'[k].outer = att[k].outer
            /\ att'[k].reason = att[k].reason
            /\ \A j \in Strategies \ {k} : att'[j] = att[j]
            /\ <<fpc, fresult, errors, started>>' = <<fpc, fresult, errors, started>>
            /\ feeds' = feeds]_vars

\* strategy 1 timed out, a later strategy delivered the feed, and the
\* answer of strategy 1 came in after that
C36_Witness ==
    /\ att[1].outer = "timeout"
    /\ att[1].inner = "ok"
    /\ fresult.kind = "feed"
    /\ fresult.from > 1

----------------------------------------------------------------------------
(* Properties of a refresh under deletes and subscriptions                 *)

\* the feed objects the running passes were started with
Snapshot == UNION {Range(passes[p].snap) : p \in Running}

\* every subscription of the collection has an url of its own
NoUrlTwice(fs) == \A i, j \in DOMAIN fs : fs[i].url = fs[j].url => i = j

\* C37: a refresh respects the feeds deleted and subscribed while it runs:
\* applying its results brings no deleted feed back and drops none (the urls
\* of the collection and their order stay), and a feed that is not one the
\* pass set out with - one subscribed since - is left as it is.  (Stated for
\* collections in which no url occurs twice.)
C37_RespectsChurn ==
    [][(Applying /\ NoUrlTwice(feeds)) =>
        /\ UrlsOf(feeds') = UrlsOf(feeds)
        /\ \A j \in DOMAIN feeds :
              feeds[j] \notin Snapshot => feeds'[j] = feeds[j]]_vars

\* C38: when the user cancels a subscribe before the new feed was added to
\* the collection, the feed is never added, also when the cancel comes
\* after the fetch succeeded, during the offline image processing.
C38_CancelledNeverAdded == [][sub.cancelled => feeds' = feeds]_vars

----------------------------------------------------------------------------
(* Properties of a repeated refresh                                        *)

\* the feed holds the entry x: an item with x's guid and x's link
Holds(feed, x) ==
    \E y \in Range(feed.items) : y.guid = x.guid /\ y.link = x.link

\* C39: a refresh is idempotent against unchanged remote content: when a
\* fetch brings only entries the feed got from an earlier fetch, whatever
\* their guid and link, the mapper adds no item and leaves lastUpdated.
C39_SecondRefreshAddsNothing ==
    \A p \in Running : \A i \in DOMAIN passes[p].snap :
        (/\ passes[p].out[i] = "ok"
         /\ \A x \in Range(passes[p].fetched[i]) : Holds(passes[p].snap[i], x))
            => /\ Len(passes[p].res[i].items) = Len(passes[p].snap[i].items)
               /\ passes[p].res[i].lastUpdated = passes[p].snap[i].lastUpdated

====
